---- MODULE Spec2Model ----
(***************************************************************************)
(* Presence protocol of mesh-chat (src/chat.js, class Client).             *)
(*                                                                         *)
(* One Client per element of Clients. A Client subscribes once to a topic  *)
(* of the pubsub transport, publishes a heartbeat on a recurring timer,    *)
(* keeps a table name -> time of the last heartbeat received, and sweeps   *)
(* that table on a second recurring timer.                                 *)
(*                                                                         *)
(* Time: one unit of the clock `now` is 100 ms, so that the 200 ms sweep   *)
(* period spans two units and a heartbeat can arrive between two sweeps.   *)
(* Date values are numbers of units since the epoch; every real Date is    *)
(* > 0, which is what makes `null < date` true in JavaScript.              *)
(***************************************************************************)
EXTENDS Integers, Sequences, FiniteSets, TLC

(***************************************************************************)
(* Bounds of the model.                                                    *)
(***************************************************************************)
\* The clock runs from 1 to MaxTime under Spec, long enough for both timers
\* to fire, and from 1 to MaxSweepTime under SpecSweep, long enough for a
\* member heard at the first instant to go stale.
MaxTime == 33
MaxSweepTime == 93
\* The clock runs from 1 to MaxPairTime under SpecPair, long enough for
\* each of two clients to publish its first heartbeat and the other to
\* receive it.
MaxPairTime == 35
\* The caller's first subscribe and the transport's subscription callback
\* happen no later than this instant.
MaxJoinTime == 3
\* Inbound heartbeats arrive once per MEMBER_HEARTBEAT_INTERVAL (a sender's
\* own period), from instant HeartbeatPhase on, and under SpecSweep up to
\* SweepJitter units late.
HeartbeatPhase == 1
SweepJitter == 1
\* Largest joined_at a foreign heartbeat may carry.
MaxJoinedAt == 2

(***************************************************************************)
(* Program constants, in clock units of 100 ms.                            *)
(***************************************************************************)
\* const MEMBER_HEARTBEAT_INTERVAL = 3000
MEMBER_HEARTBEAT_INTERVAL == 30
\* const MEMBER_CLEANUP_INTERVAL = MEMBER_HEARTBEAT_INTERVAL * 3
MEMBER_CLEANUP_INTERVAL == MEMBER_HEARTBEAT_INTERVAL * 3
\* const MEMBER_CLEANUP_POLL_INTERVAL = 200
MEMBER_CLEANUP_POLL_INTERVAL == 2

(***************************************************************************)
(* JavaScript values.                                                      *)
(***************************************************************************)
\* this._topic = null
Null == "null"
\* this._joined_at = null; in a relational comparison null is the number 0.
NullDate == 0
\* The time value of an Invalid Date.
NaN == -1
\* A field that is absent from an object.
Undefined == -2
UndefinedStr == "undefined"

\* name -> this._joined_at < new Date(data.joined_at): both sides are
\* converted to numbers, and a comparison with NaN is false.
DateLess(x, y) == x # NaN /\ y # NaN /\ x < y

\* new Date(v) for the value of a parsed joined_at field: an ISO string
\* gives its instant, null gives the epoch, an absent field an Invalid Date.
NewDate(v) == IF v = Undefined THEN NaN ELSE v

\* Date.prototype.toJSON as used by JSON.stringify: the ISO string of the
\* instant, and null for null. The string is modelled by the instant it
\* denotes.
DateToJSON(d) == IF d = NaN THEN NullDate ELSE d

\* Property names every plain object inherits from Object.prototype
\* (constructor, toString, valueOf, hasOwnProperty, ...); the one name of
\* them that the model's senders use.
ObjectPrototypeKeys == {"constructor"}

\* key in obj: own properties and inherited ones.
HasProperty(obj, key) == key \in DOMAIN obj \/ key \in ObjectPrototypeKeys

(***************************************************************************)
(* Clients, names, payloads.                                               *)
(***************************************************************************)
Clients == {"A", "B"}

\* new Client(node, name): this._name
NameOf(c) == IF c = "A" THEN "alice" ELSE "bob"

\* Names carried by inbound envelopes.
Names == {"alice", "bob", "constructor"}

Topics == {"main"}

Texts == {"hi", "yo"}

\* The bytes handed to the subscription handler: text that is not JSON, the
\* JSON text null, or the JSON text of an object with these fields.
Raw(syntax, type, name, joined_at, payload) ==
    [syntax |-> syntax, type |-> type, name |-> name,
     joined_at |-> joined_at, payload |-> payload]

Garbage == Raw("garbage", UndefinedStr, UndefinedStr, Undefined, UndefinedStr)

JsonNull == Raw("null", UndefinedStr, UndefinedStr, Undefined, UndefinedStr)

\* Buffer.from(JSON.stringify({name, type: "heartbeat", joined_at}))
HeartbeatBytes(name, joined_at) ==
    Raw("object", "heartbeat", name, DateToJSON(joined_at), UndefinedStr)

\* Buffer.from(JSON.stringify({name, type: "message", payload}))
MessageBytes(name, msg) == Raw("object", "message", name, Undefined, msg)

\* Envelopes of kinds this protocol does not know; "greeting" is what an
\* earlier revision of the client broadcasts, the other has no type field.
UnknownTypes == {"greeting", UndefinedStr}

\* Heartbeats as any sender may publish them: joined_at an instant, null
\* (the number 0) or absent.
ForeignHeartbeats ==
    {Raw("object", "heartbeat", n, j, UndefinedStr) :
        n \in Names, j \in (0..MaxJoinedAt) \cup {Undefined}}

\* Heartbeats as this client's own code publishes them, from two senders
\* that joined at MaxJoinedAt; one of them uses client A's own name.
PeerHeartbeats == {HeartbeatBytes(n, MaxJoinedAt) : n \in {"alice", "bob"}}

\* Two peers, processes of their own with their own joined_at, that were
\* both started under the name TwinName, both after a client that joined at
\* the first instant.
Twins == {"first", "second"}

TwinName == "bob"

TwinHeartbeat(p) ==
    HeartbeatBytes(TwinName, IF p = "first" THEN MaxJoinedAt ELSE MaxJoinedAt + 1)

ForeignOthers ==
    {Garbage, JsonNull}
    \cup {MessageBytes(n, "hi") : n \in Names}
    \cup {MessageBytes("bob", m) : m \in Texts}
    \cup {Raw("object", t, "bob", Undefined, UndefinedStr) : t \in UnknownTypes}

\* JSON.parse(raw.data.toString()): throws a SyntaxError on text that is not
\* JSON.
JSONParse(raw) ==
    IF raw.syntax = "garbage"
    THEN [threw |-> TRUE, data |-> raw]
    ELSE [threw |-> FALSE, data |-> raw]

\* Whether the transport may deliver a heartbeat at instant t, given how
\* late after the sender's period a delivery may be.
HeartbeatSlot(t, jitter) ==
    /\ t >= HeartbeatPhase
    /\ (t - HeartbeatPhase) % MEMBER_HEARTBEAT_INTERVAL <= jitter

(***************************************************************************)
(* State.                                                                  *)
(***************************************************************************)
VARIABLES
    now,             \* the wall clock (new Date())
    _topic,          \* c -> this._topic
    _joined_at,      \* c -> this._joined_at
    _topic_members,  \* c -> this._topic_members (name -> Date)
    _interval_ids,   \* c -> this._interval_ids
    intervals,       \* the running setInterval timers of the process
    timer_seq,       \* number of timers created so far
    handlers,        \* clients whose handler the transport holds
    pending,         \* clients whose subscription callback is outstanding
    emitted,         \* events emitted by the last step, in order
    observed,        \* per emitted event: the names in the table of the
                     \* emitting client at the moment its listeners run
    published,       \* publish calls made by the last step
    inflight,        \* payloads the transport has accepted and not yet
                     \* delivered to a subscriber
    heard,           \* per same-named peer of SpecTwins: the instant its
                     \* last heartbeat was handled (NullDate: none yet)
    last,            \* the last step: operation, client, outcome, input
    disconnected     \* clients on which disconnect() has returned

vars == <<now, _topic, _joined_at, _topic_members, _interval_ids, intervals,
          timer_seq, handlers, pending, emitted, observed, published, inflight,
          heard, last, disconnected>>

client_vars == <<_topic, _joined_at, _topic_members, _interval_ids>>

Empty == [n \in {} |-> 0]

Event(type, name, payload) == [type |-> type, name |-> name, payload |-> payload]

\* Listeners as they would be had main not registered one for "error".
Listeners_WithoutError == {"member:joined", "member:left", "member:message"}

\* main: client.on("member:joined" | "member:left" | "member:message" | "error")
Listeners == {"member:joined", "member:left", "member:message", "error"}

\* EventEmitter.emit: an "error" event without a listener is thrown.
EmitThrows(type) == type = "error" /\ type \notin Listeners

Step(op, c, threw, kind, name, joined_at, fresh) ==
    [op |-> op, client |-> c, threw |-> threw, kind |-> kind, name |-> name,
     joined_at |-> joined_at, fresh |-> fresh]

Call(op, c, threw) == Step(op, c, threw, UndefinedStr, UndefinedStr, Undefined, FALSE)

\* constructor (node, name)
Init ==
    /\ now = 1
    /\ _topic = [c \in Clients |-> Null]
    /\ _joined_at = [c \in Clients |-> NullDate]
    /\ _topic_members = [c \in Clients |-> Empty]
    /\ _interval_ids = [c \in Clients |-> <<>>]
    /\ intervals = {}
    /\ timer_seq = 0
    /\ handlers = {}
    /\ pending = {}
    /\ emitted = <<>>
    /\ observed = <<>>
    /\ published = <<>>
    /\ inflight = {}
    /\ heard = [p \in Twins |-> NullDate]
    /\ last = Call("new", "A", FALSE)
    /\ disconnected = {}

(***************************************************************************)
(* Operations of Client.                                                   *)
(***************************************************************************)
Range(s) == {s[i] : i \in DOMAIN s}

\* All orders in which the elements of S can be listed.
Orders(S) ==
    {s \in [1..Cardinality(S) -> S] :
        \A i, j \in 1..Cardinality(S) : i # j => s[i] # s[j]}

\* One call of this._node.pubsub.publish(topic, bytes); ok is the outcome
\* the transport reports.
Publish(topic, bytes, ok) == [topic |-> topic, bytes |-> bytes, ok |-> ok]

\* subscribe without its test of this._topic.
subscribe_Unguarded(c, topic) ==
    /\ _topic' = [_topic EXCEPT ![c] = topic]
    /\ handlers' = handlers \cup {c}
    /\ pending' = pending \cup {c}
    /\ last' = Call("subscribe", c, FALSE)
    /\ emitted' = <<>>
    /\ observed' = <<>>
    /\ published' = <<>>
    /\ UNCHANGED <<heard, inflight, now, _joined_at, _topic_members, _interval_ids, intervals,
                   timer_seq, disconnected>>

\* async subscribe (topic): the synchronous part, up to the call of
\* this._node.pubsub.subscribe, which hands the handler to the transport.
subscribe(c, topic) ==
    /\ IF _topic[c] = Null
       THEN /\ _topic' = [_topic EXCEPT ![c] = topic]
            /\ handlers' = handlers \cup {c}
            /\ pending' = pending \cup {c}
            /\ last' = Call("subscribe", c, FALSE)
       ELSE /\ last' = Call("subscribe", c, TRUE)
            /\ UNCHANGED <<_topic, handlers, pending>>
    /\ emitted' = <<>>
    /\ observed' = <<>>
    /\ published' = <<>>
    /\ UNCHANGED <<heard, inflight, now, _joined_at, _topic_members, _interval_ids, intervals,
                   timer_seq, disconnected>>

\* setInterval(fn, period): a timer that first fires one period from now.
SetInterval(c, fn, period, id) ==
    [id |-> id, owner |-> c, fn |-> fn, period |-> period, due |-> now + period]

\* The callback passed to pubsub.subscribe, called by the transport once
\* the subscription is established.
subscribed(c) ==
    /\ c \in pending
    /\ pending' = pending \ {c}
    /\ _joined_at' = [_joined_at EXCEPT ![c] = now]
    /\ intervals' = intervals \cup
          {SetInterval(c, "heartbeat", MEMBER_HEARTBEAT_INTERVAL, timer_seq + 1),
           SetInterval(c, "cleanup", MEMBER_CLEANUP_POLL_INTERVAL, timer_seq + 2)}
    /\ _interval_ids' =
          [_interval_ids EXCEPT ![c] = @ \o <<timer_seq + 1, timer_seq + 2>>]
    /\ timer_seq' = timer_seq + 2
    /\ emitted' = <<>>
    /\ observed' = <<>>
    /\ published' = <<>>
    /\ last' = Call("subscribed", c, FALSE)
    /\ UNCHANGED <<heard, inflight, now, _topic, _topic_members, handlers, disconnected>>

\* await this._node.pubsub.subscribe(...) rejecting: the transport refuses
\* the subscription, holds no handler for the client and never calls the
\* callback; subscribe() has no handler for the rejection and no code that
\* undoes its assignment of this._topic, so the caller's await throws.
subscribe_rejected(c) ==
    /\ c \in pending
    /\ pending' = pending \ {c}
    /\ handlers' = handlers \ {c}
    /\ emitted' = <<>>
    /\ observed' = <<>>
    /\ published' = <<>>
    /\ last' = Call("subscribe_rejected", c, TRUE)
    /\ UNCHANGED <<heard, inflight, now, client_vars, intervals, timer_seq, disconnected>>

\* The announcement test without its look at the table.
ShouldAnnounce_EveryHeartbeat(c, data) ==
    DateLess(_joined_at[c], NewDate(data.joined_at))

\* The announcement test with <= in place of <.
ShouldAnnounce_NonStrict(c, data) ==
    /\ ~HasProperty(_topic_members[c], data.name)
    /\ ~DateLess(NewDate(data.joined_at), _joined_at[c])

\* !(data.name in this._topic_members) &&
\*     this._joined_at < new Date(data.joined_at)
ShouldAnnounce(c, data) ==
    /\ ~HasProperty(_topic_members[c], data.name)
    /\ DateLess(_joined_at[c], NewDate(data.joined_at))

\* The table write that keeps the time of a name it already holds.
Upsert_KeepFirst(members, name) ==
    [n \in DOMAIN members \cup {name} |->
        IF n \in DOMAIN members THEN members[n] ELSE now]

\* this._topic_members[data.name] = new Date()
Upsert(members, name) ==
    [n \in DOMAIN members \cup {name} |-> IF n = name THEN now ELSE members[n]]

\* this.emit(type, ...) of one event from the subscription handler: the
\* events the listeners receive, and whether emit throws.
Emit(ev) ==
    IF EmitThrows(ev.type)
    THEN [events |-> <<>>, threw |-> TRUE]
    ELSE [events |-> <<ev>>, threw |-> FALSE]

\* The handler's branches with messages passed on for known senders only.
Dispatch_MessageNeedsMember(c, data) ==
    IF data.type = "heartbeat"
    THEN [events |-> IF ShouldAnnounce(c, data)
                     THEN <<Event("member:joined", data.name, UndefinedStr)>>
                     ELSE <<>>,
          seen |-> _topic_members[c],
          members |-> Upsert(_topic_members[c], data.name),
          threw |-> FALSE]
    ELSE IF data.type = "message"
    THEN [events |-> IF HasProperty(_topic_members[c], data.name)
                     THEN <<Event("member:message", data.name, data.payload)>>
                     ELSE <<>>,
          seen |-> _topic_members[c],
          members |-> _topic_members[c],
          threw |-> FALSE]
    ELSE [events |-> Emit(Event("error", UndefinedStr, data.type)).events,
          seen |-> _topic_members[c],
          members |-> _topic_members[c],
          threw |-> Emit(Event("error", UndefinedStr, data.type)).threw]

\* The handler's branches with a message counted as a sign of life.
Dispatch_MessageRefreshes(c, data) ==
    IF data.type = "heartbeat"
    THEN [events |-> IF ShouldAnnounce(c, data)
                     THEN <<Event("member:joined", data.name, UndefinedStr)>>
                     ELSE <<>>,
          seen |-> _topic_members[c],
          members |-> Upsert(_topic_members[c], data.name),
          threw |-> FALSE]
    ELSE IF data.type = "message"
    THEN [events |-> <<Event("member:message", data.name, data.payload)>>,
          seen |-> _topic_members[c],
          members |-> Upsert(_topic_members[c], data.name),
          threw |-> FALSE]
    ELSE [events |-> Emit(Event("error", UndefinedStr, data.type)).events,
          seen |-> _topic_members[c],
          members |-> _topic_members[c],
          threw |-> Emit(Event("error", UndefinedStr, data.type)).threw]

\* The branches of the subscription handler on a parsed object.
\* seen is the table as it stands when emit is called: in the heartbeat
\* branch the emit comes before the write of the sender's entry.
Dispatch(c, data) ==
    IF data.type = "heartbeat"
    THEN [events |-> IF ShouldAnnounce(c, data)
                     THEN <<Event("member:joined", data.name, UndefinedStr)>>
                     ELSE <<>>,
          seen |-> _topic_members[c],
          members |-> Upsert(_topic_members[c], data.name),
          threw |-> FALSE]
    ELSE IF data.type = "message"
    THEN [events |-> <<Event("member:message", data.name, data.payload)>>,
          seen |-> _topic_members[c],
          members |-> _topic_members[c],
          threw |-> FALSE]
    ELSE [events |-> Emit(Event("error", UndefinedStr, data.type)).events,
          seen |-> _topic_members[c],
          members |-> _topic_members[c],
          threw |-> Emit(Event("error", UndefinedStr, data.type)).threw]

\* Whether the handler throws before it reaches its branches: JSON.parse
\* on text that is not JSON, or data.type on the value null.
ParseThrows(raw) == JSONParse(raw).threw \/ JSONParse(raw).data.syntax = "null"

\* (raw) => {...}: the handler the transport calls for one inbound payload.
\* The transport's own bookkeeping (inflight) is left to the caller.
handler(c, raw) ==
    /\ c \in handlers
    /\ LET out == IF ParseThrows(raw)
                  THEN [events |-> <<>>, seen |-> _topic_members[c],
                        members |-> _topic_members[c], threw |-> TRUE]
                  ELSE Dispatch(c, JSONParse(raw).data)
       IN /\ emitted' = out.events
          /\ observed' = [i \in DOMAIN out.events |-> DOMAIN out.seen]
          /\ _topic_members' = [_topic_members EXCEPT ![c] = out.members]
          /\ last' = Step("handler", c, out.threw,
                          IF raw.syntax = "object" THEN raw.type ELSE raw.syntax,
                          raw.name, NewDate(raw.joined_at),
                          raw.name \notin DOMAIN _topic_members[c])
    /\ published' = <<>>
    /\ UNCHANGED <<now, _topic, _joined_at, _interval_ids, intervals, timer_seq,
                   handlers, pending, disconnected>>

\* A timer of client c that is due.
Due(c, fn) == {t \in intervals : t.owner = c /\ t.fn = fn /\ t.due <= now}

Rearm(t) == (intervals \ {t}) \cup {[t EXCEPT !.due = t.due + t.period]}

\* What the transport does with a payload it accepts: one copy for every
\* other client whose handler it holds on the topic (emitSelf is false); a
\* payload it fails to publish reaches nobody.
Transport(c, bytes, ok) ==
    IF ok
    THEN {[to |-> d, bytes |-> bytes, at |-> now] :
             d \in {d \in handlers \ {c} : _topic[d] = _topic[c]}}
    ELSE {}

\* The heartbeat envelope stamped with the time of the tick.
OwnHeartbeat_Now(c) == HeartbeatBytes(NameOf(c), now)

\* The envelope the heartbeat timer builds.
OwnHeartbeat(c) == HeartbeatBytes(NameOf(c), _joined_at[c])

\* The heartbeat timer's callback, giving up once a publish fails.
heartbeat_tick_StopsOnFailure(c) ==
    \E t \in Due(c, "heartbeat"), ok \in BOOLEAN :
        /\ published' = <<Publish(_topic[c], OwnHeartbeat(c), ok)>>
        /\ inflight' = inflight \cup Transport(c, OwnHeartbeat(c), ok)
        /\ intervals' = IF ok THEN Rearm(t) ELSE intervals \ {t}
        /\ emitted' = <<>>
        /\ observed' = <<>>
        /\ last' = Call("heartbeat_tick", c, FALSE)
        /\ UNCHANGED <<heard, now, client_vars, timer_seq, handlers, pending, disconnected>>

\* The heartbeat timer's callback.
heartbeat_tick(c) ==
    \E t \in Due(c, "heartbeat"), ok \in BOOLEAN :
        /\ published' = <<Publish(_topic[c], OwnHeartbeat(c), ok)>>
        /\ inflight' = inflight \cup Transport(c, OwnHeartbeat(c), ok)
        /\ intervals' = Rearm(t)
        /\ emitted' = <<>>
        /\ observed' = <<>>
        /\ last' = Call("heartbeat_tick", c, FALSE)
        /\ UNCHANGED <<heard, now, client_vars, timer_seq, handlers, pending, disconnected>>

\* The staleness test against the heartbeat period instead of the timeout.
Stale_HeartbeatInterval(cur_time, last_hb_time) ==
    cur_time - last_hb_time >= MEMBER_HEARTBEAT_INTERVAL

\* cur_time - last_hb_time >= MEMBER_CLEANUP_INTERVAL
Stale(cur_time, last_hb_time) == cur_time - last_hb_time >= MEMBER_CLEANUP_INTERVAL

\* The cleanup timer's callback, stopping at the first stale entry it finds.
cleanup_tick_OnePerTick(c) ==
    \E t \in Due(c, "cleanup") :
        LET members == _topic_members[c]
            stale == {n \in DOMAIN members : Stale(now, members[n])}
        IN /\ \E gone \in {g \in SUBSET stale :
                              Cardinality(g) = IF stale = {} THEN 0 ELSE 1} :
                 /\ emitted' = [i \in 1..Cardinality(gone) |->
                                   Event("member:left", CHOOSE n \in gone : TRUE,
                                         UndefinedStr)]
                 /\ observed' = [i \in 1..Cardinality(gone) |-> DOMAIN members]
                 /\ _topic_members' = [_topic_members EXCEPT
                       ![c] = [n \in DOMAIN members \ gone |-> members[n]]]
           /\ intervals' = Rearm(t)
           /\ published' = <<>>
           /\ last' = Call("cleanup_tick", c, FALSE)
           /\ UNCHANGED <<heard, inflight, now, _topic, _joined_at, _interval_ids, timer_seq,
                          handlers, pending, disconnected>>

\* The cleanup timer's callback. Object.entries lists the table in the order
\* its names were first inserted, which the model does not record: every
\* order is possible.
cleanup_tick(c) ==
    \E t \in Due(c, "cleanup") :
        LET members == _topic_members[c]
            stale == {n \in DOMAIN members : Stale(now, members[n])}
        IN /\ \E order \in Orders(stale) :
                 /\ emitted' = [i \in 1..Cardinality(stale) |->
                                   Event("member:left", order[i], UndefinedStr)]
                 /\ observed' = [i \in 1..Cardinality(stale) |->
                                    DOMAIN members \ {order[j] : j \in 1..(i - 1)}]
           /\ _topic_members' = [_topic_members EXCEPT
                 ![c] = [n \in DOMAIN members \ stale |-> members[n]]]
           /\ intervals' = Rearm(t)
           /\ published' = <<>>
           /\ last' = Call("cleanup_tick", c, FALSE)
           /\ UNCHANGED <<heard, inflight, now, _topic, _joined_at, _interval_ids, timer_seq,
                          handlers, pending, disconnected>>

\* send without its test of this._topic.
send_Unguarded(c, msg) ==
    /\ \E ok \in BOOLEAN :
            /\ published' = <<Publish(_topic[c], MessageBytes(NameOf(c), msg), ok)>>
            /\ inflight' = inflight \cup Transport(c, MessageBytes(NameOf(c), msg), ok)
            /\ last' = Call("send", c, ~ok)
    /\ emitted' = <<>>
    /\ observed' = <<>>
    /\ UNCHANGED <<heard, now, client_vars, intervals, timer_seq, handlers, pending,
                   disconnected>>

\* async send (msg)
send(c, msg) ==
    /\ IF _topic[c] = Null
       THEN /\ published' = <<>>
            /\ inflight' = inflight
            /\ last' = Call("send", c, TRUE)
       ELSE \E ok \in BOOLEAN :
            /\ published' = <<Publish(_topic[c], MessageBytes(NameOf(c), msg), ok)>>
            /\ inflight' = inflight \cup Transport(c, MessageBytes(NameOf(c), msg), ok)
            /\ last' = Call("send", c, ~ok)
    /\ emitted' = <<>>
    /\ observed' = <<>>
    /\ UNCHANGED <<heard, now, client_vars, intervals, timer_seq, handlers, pending,
                   disconnected>>

\* disconnect that fails on a session without timers.
disconnect_ThrowsWhenIdle(c) ==
    /\ intervals' = {t \in intervals : t.id \notin Range(_interval_ids[c])}
    /\ disconnected' = disconnected \cup {c}
    /\ emitted' = <<>>
    /\ observed' = <<>>
    /\ published' = <<>>
    /\ last' = Call("disconnect", c, _interval_ids[c] = <<>>)
    /\ UNCHANGED <<heard, inflight, now, client_vars, timer_seq, handlers, pending>>

\* disconnect (): clearInterval on every id in this._interval_ids
disconnect(c) ==
    /\ intervals' = {t \in intervals : t.id \notin Range(_interval_ids[c])}
    /\ disconnected' = disconnected \cup {c}
    /\ emitted' = <<>>
    /\ observed' = <<>>
    /\ published' = <<>>
    /\ last' = Call("disconnect", c, FALSE)
    /\ UNCHANGED <<heard, inflight, now, client_vars, timer_seq, handlers, pending>>

(***************************************************************************)
(* The environment: the clock, the caller and the transport.               *)
(***************************************************************************)
\* Time passes once every timer that is due has fired.
Tick(limit) ==
    /\ now < limit
    /\ \A t \in intervals : t.due > now
    /\ now' = now + 1
    /\ emitted' = <<>>
    /\ observed' = <<>>
    /\ published' = <<>>
    /\ last' = Call("tick", "none", FALSE)
    /\ UNCHANGED <<heard, inflight, client_vars, intervals, timer_seq, handlers, pending,
                   disconnected>>

\* The caller joins: a first call no later than MaxJoinTime, further calls
\* at any time.
Join(c) ==
    \E topic \in Topics :
        /\ now <= MaxJoinTime \/ _topic[c] # Null
        /\ subscribe(c, topic)

\* The transport establishes the subscription.
Established(c) == now <= MaxJoinTime /\ subscribed(c)

\* The transport fails to establish the subscription.
Refused(c) == now <= MaxJoinTime /\ subscribe_rejected(c)

\* The transport delivers a heartbeat published on the topic.
DeliverHeartbeat(c, heartbeats, jitter) ==
    /\ HeartbeatSlot(now, jitter)
    /\ \E raw \in heartbeats : handler(c, raw)
    /\ UNCHANGED <<inflight, heard>>

\* The transport delivers any other payload published on the topic.
DeliverOther(c) ==
    /\ \E raw \in ForeignOthers : handler(c, raw)
    /\ UNCHANGED <<inflight, heard>>

Say(c) == \E msg \in Texts : send(c, msg)

\* The transport delivers a heartbeat of one of the two peers that share a
\* name.
DeliverTwin(c) ==
    /\ HeartbeatSlot(now, SweepJitter)
    /\ \E p \in Twins :
           /\ handler(c, TwinHeartbeat(p))
           /\ heard' = [heard EXCEPT ![p] = now]
    /\ UNCHANGED inflight

\* The clients the specification drives.
Observed == {"A"}

Next ==
    \/ Tick(MaxTime)
    \/ \E c \in Observed : Join(c)
    \/ \E c \in Observed : Established(c)
    \/ \E c \in Observed : Refused(c)
    \/ \E c \in Observed : DeliverHeartbeat(c, ForeignHeartbeats, 0)
    \/ \E c \in Observed : DeliverOther(c)
    \/ \E c \in Observed : heartbeat_tick(c)
    \/ \E c \in Observed : cleanup_tick(c)
    \/ \E c \in Observed : Say(c)
    \/ \E c \in Observed : disconnect(c)

\* One client against an arbitrary transport and caller.
Spec == Init /\ [][Next]_vars

NextSweep ==
    \/ Tick(MaxSweepTime)
    \/ \E c \in Observed : Join(c)
    \/ \E c \in Observed : Established(c)
    \/ \E c \in Observed : DeliverHeartbeat(c, PeerHeartbeats, SweepJitter)
    \/ \E c \in Observed : heartbeat_tick(c)
    \/ \E c \in Observed : cleanup_tick(c)
    \/ \E c \in Observed : disconnect(c)

\* One client and its timers over the time it takes members to go stale.
SpecSweep == Init /\ [][NextSweep]_vars

\* The transport delivers to client c a payload another client published,
\* at the instant of the publication or any time later.
Receive(c) ==
    \E m \in inflight :
        /\ m.to = c
        /\ handler(c, m.bytes)
        /\ inflight' = inflight \ {m}
        /\ UNCHANGED heard

\* The two clients of SpecPair, each in a process of its own on the topic.
Pair == {"A", "B"}

NextPair ==
    \/ Tick(MaxPairTime)
    \/ \E c \in Pair : Join(c)
    \/ \E c \in Pair : Established(c)
    \/ \E c \in Pair : Receive(c)
    \/ \E c \in Pair : heartbeat_tick(c)
    \/ \E c \in Pair : cleanup_tick(c)

\* Two clients whose publications the transport relays to each other.
SpecPair == Init /\ [][NextPair]_vars

\* The senders of SpecChatter: Chatter publishes heartbeats and messages,
\* Lurker publishes messages only.
Chatter == "bob"

Lurker == "carol"

\* The transport delivers a message, at any instant.
DeliverMessage(c) ==
    /\ \E n \in {Chatter, Lurker} : handler(c, MessageBytes(n, "hi"))
    /\ UNCHANGED <<inflight, heard>>

NextChatter ==
    \/ Tick(MaxSweepTime)
    \/ \E c \in Observed : Join(c)
    \/ \E c \in Observed : Established(c)
    \/ \E c \in Observed :
           DeliverHeartbeat(c, {HeartbeatBytes(Chatter, MaxJoinedAt)}, SweepJitter)
    \/ \E c \in Observed : DeliverMessage(c)
    \/ \E c \in Observed : heartbeat_tick(c)
    \/ \E c \in Observed : cleanup_tick(c)

\* One client, a peer that heartbeats and chats, and a peer that only chats.
SpecChatter == Init /\ [][NextChatter]_vars

NextTwins ==
    \/ Tick(MaxSweepTime)
    \/ \E c \in Observed : Join(c)
    \/ \E c \in Observed : Established(c)
    \/ \E c \in Observed : DeliverTwin(c)
    \/ \E c \in Observed : heartbeat_tick(c)
    \/ \E c \in Observed : cleanup_tick(c)
    \/ \E c \in Observed : disconnect(c)

\* One client and two peers that publish under the same name.
SpecTwins == Init /\ [][NextTwins]_vars

(***************************************************************************)
(* Properties.                                                             *)
(***************************************************************************)
Joined(name) == Event("member:joined", name, UndefinedStr)

Left(name) == Event("member:left", name, UndefinedStr)

\* The last step was client c's handler on a heartbeat.
HeartbeatHandled(c) ==
    /\ last.op = "handler"
    /\ last.client = c
    /\ last.kind = "heartbeat"

\* C1: once the session has recorded its joined_at, a heartbeat from a name
\* not yet in the presence table, carrying a joined_at strictly after the
\* session's, emits exactly one member:joined(name); a heartbeat from a name
\* already in the table emits none.
C1_FirstHeartbeatAnnounced ==
    \A c \in Observed :
        (HeartbeatHandled(c) /\ _joined_at[c] # NullDate) =>
            /\ (last.fresh /\ DateLess(_joined_at[c], last.joined_at))
                   => emitted = <<Joined(last.name)>>
            /\ ~last.fresh => emitted = <<>>

\* C1 for the names that are not property names of Object.prototype.
C1_OwnNamesAnnounced ==
    \A c \in Observed :
        (/\ HeartbeatHandled(c)
         /\ _joined_at[c] # NullDate
         /\ last.name \notin ObjectPrototypeKeys) =>
            /\ (last.fresh /\ DateLess(_joined_at[c], last.joined_at))
                   => emitted = <<Joined(last.name)>>
            /\ ~last.fresh => emitted = <<>>

\* C2: a heartbeat whose joined_at is not strictly after the session's
\* joined_at (earlier, equal, or no valid date; the session's joined_at as
\* the handler reads it) emits no member:joined, and afterwards its sender
\* is in the presence table with the receive time.
C2_EarlierHeartbeatSilentButRecorded ==
    \A c \in Observed :
        (HeartbeatHandled(c) /\ ~DateLess(_joined_at[c], last.joined_at)) =>
            /\ emitted = <<>>
            /\ last.name \in DOMAIN _topic_members[c]
            /\ _topic_members[c][last.name] = now

C2_Witness ==
    /\ HeartbeatHandled("A")
    /\ _joined_at["A"] # NullDate
    /\ last.fresh
    /\ last.joined_at # NaN
    /\ last.joined_at <= _joined_at["A"]
    /\ emitted = <<>>
    /\ "bob" \in DOMAIN _topic_members["A"]
    /\ last.name = "bob"

\* The cleanup timer of client c is running.
Sweeping(c) == \E t \in intervals : t.owner = c /\ t.fn = "cleanup"

\* The cleanup timer of client c was started no later than the instant at
\* which name's last heartbeat reached the timeout.
SweptSinceStale(c, name) ==
    _joined_at[c] <= _topic_members[c][name] + MEMBER_CLEANUP_INTERVAL

\* C3 (a): member:left(name) is emitted only for a name that is in the table
\* and whose last heartbeat is at least MEMBER_CLEANUP_INTERVAL old, at most
\* once per sweep, and the name then leaves the table (so that a second
\* member:left(name) needs a new heartbeat first).
C3_LeftOnlyWhenStale ==
    \A c \in Observed : \A i \in DOMAIN emitted' :
        (last'.client = c /\ emitted'[i].type = "member:left") =>
            LET name == emitted'[i].name
            IN /\ name \in DOMAIN _topic_members[c]
               /\ now - _topic_members[c][name] >= MEMBER_CLEANUP_INTERVAL
               /\ SweptSinceStale(c, name) =>
                      now - _topic_members[c][name]
                          <= MEMBER_CLEANUP_INTERVAL + MEMBER_CLEANUP_POLL_INTERVAL
               /\ name \notin DOMAIN _topic_members'[c]
               /\ \A j \in DOMAIN emitted' : emitted'[j] = emitted'[i] => j = i

\* C3 (b): while the cleanup timer runs, no member stays in the table later
\* than one poll interval after its last heartbeat reached the timeout, and
\* a member past the timeout is swept at the next instant at the latest.
C3_EvictedWithinOnePoll ==
    \A c \in Observed :
        Sweeping(c) =>
            \A name \in DOMAIN _topic_members[c] :
                SweptSinceStale(c, name) =>
                    /\ now - _topic_members[c][name]
                           <= MEMBER_CLEANUP_INTERVAL + MEMBER_CLEANUP_POLL_INTERVAL
                    /\ now - _topic_members[c][name] > MEMBER_CLEANUP_INTERVAL
                           => \E t \in intervals :
                                  /\ t.owner = c
                                  /\ t.fn = "cleanup"
                                  /\ t.due <= now + 1

\* C3: a member that stops heartbeating is evicted with exactly one
\* member:left, not before the timeout and, while the sweeper ticks, no
\* later than one poll interval after it.
C3_EvictionTiming == [][C3_LeftOnlyWhenStale]_vars /\ []C3_EvictedWithinOnePoll

C3_Witness ==
    /\ last.op = "cleanup_tick"
    /\ last.client = "A"
    /\ emitted = <<Left("bob")>>
    /\ "alice" \in DOMAIN _topic_members["A"]

\* C4: once disconnect() has returned on a client, neither its heartbeat
\* timer nor its cleanup timer fires again.
C4_NoTimerFiresAfterDisconnect ==
    \A c \in Observed :
        c \in disconnected =>
            ~(last.client = c /\ last.op \in {"heartbeat_tick", "cleanup_tick"})

\* C5: once disconnect() has returned on a client, the client emits no
\* further event.
C5_NoEventAfterDisconnect ==
    \A c \in Observed :
        (c \in disconnected /\ last.client = c) => emitted = <<>>

\* The state of client c that a failed call must leave alone.
SessionState(c) ==
    <<_topic[c], _joined_at[c], _topic_members[c], _interval_ids[c],
      {t \in intervals : t.owner = c}, c \in handlers, c \in pending>>

\* C6: a join on a session that has already joined fails with a usage
\* error and leaves the channel, joined_at, the presence table and the
\* timers as they were.
C6_SecondJoinStep ==
    \A c \in Observed :
        (last'.op = "subscribe" /\ last'.client = c /\ _topic[c] # Null) =>
            /\ last'.threw
            /\ SessionState(c)' = SessionState(c)
            /\ timer_seq' = timer_seq
            /\ published' = <<>>

C6_SecondJoinFails == [][C6_SecondJoinStep]_vars

C6_Witness ==
    /\ last.op = "subscribe"
    /\ last.client = "A"
    /\ last.threw
    /\ _joined_at["A"] # NullDate
    /\ Sweeping("A")

\* C7: a join called after disconnect() fails with the usage error,
\* establishes no subscription and starts no timer: a disconnected session
\* stays disconnected.
C7_DisconnectedIsTerminal ==
    \A c \in Observed :
        c \in disconnected =>
            /\ (last.op = "subscribe" /\ last.client = c) => last.threw
            /\ ~(last.op = "subscribed" /\ last.client = c)
            /\ \A t \in intervals : t.owner # c

\* C8: send on a session that never joined fails with a usage error,
\* publishes nothing and leaves the session as it was.
C8_SendBeforeJoinStep ==
    \A c \in Observed :
        (last'.op = "send" /\ last'.client = c /\ _topic[c] = Null) =>
            /\ last'.threw
            /\ published' = <<>>
            /\ SessionState(c)' = SessionState(c)

C8_SendBeforeJoinFails == [][C8_SendBeforeJoinStep]_vars

C8_Witness ==
    /\ last.op = "send"
    /\ last.client = "A"
    /\ last.threw
    /\ _topic["A"] = Null
    /\ published = <<>>

\* C9: an inbound payload that is not a well-formed record makes the
\* handler emit an error event and return normally.
C9_MalformedPayloadReported ==
    \A c \in Observed :
        (last.op = "handler" /\ last.client = c /\ last.kind \in {"garbage", "null"}) =>
            /\ ~last.threw
            /\ \E i \in DOMAIN emitted : emitted[i].type = "error"

\* C10: a well-formed envelope whose type is neither heartbeat nor message
\* makes the handler emit exactly one error event carrying that type and
\* nothing else, return normally, and leave the presence table as it was.
C10_UnknownKindStep ==
    \A c \in Observed :
        (last'.op = "handler" /\ last'.client = c /\ last'.kind \in UnknownTypes) =>
            /\ emitted' = <<Event("error", UndefinedStr, last'.kind)>>
            /\ ~last'.threw
            /\ _topic_members' = _topic_members

C10_UnknownKindReported == [][C10_UnknownKindStep]_vars

C10_Witness ==
    /\ last.op = "handler"
    /\ last.client = "A"
    /\ last.kind = "greeting"
    /\ emitted = <<Event("error", UndefinedStr, "greeting")>>
    /\ "bob" \in DOMAIN _topic_members["A"]

\* C11: a client's table never holds an entry under the client's own name,
\* and the client never emits member:joined or member:left for its own
\* name, whatever envelope is delivered to it.
C11_NoSelfPresence ==
    \A c \in Observed :
        /\ NameOf(c) \notin DOMAIN _topic_members[c]
        /\ last.client = c =>
              \A i \in DOMAIN emitted :
                  emitted[i] \notin {Joined(NameOf(c)), Left(NameOf(c))}

\* C12: at every moment at which the table of a session that has joined can
\* be read, every entry is younger than the cleanup timeout plus one sweep
\* period, whatever way and whenever the session was stopped.
C12_EntriesYoungerThanTimeoutPlusPoll ==
    \A c \in Observed :
        _joined_at[c] # NullDate =>
            \A n \in DOMAIN _topic_members[c] :
                now - _topic_members[c][n] <
                    MEMBER_CLEANUP_INTERVAL + MEMBER_CLEANUP_POLL_INTERVAL

\* C14 (step): disconnect() never throws, in any state of the session; it
\* changes none of the session's fields, leaves none of the session's timers
\* running, and a disconnect() that directly follows another one changes
\* nothing at all.
C14_DisconnectStep ==
    \A c \in Observed :
        (last'.op = "disconnect" /\ last'.client = c) =>
            /\ ~last'.threw
            /\ UNCHANGED <<_topic[c], _joined_at[c], _topic_members[c],
                           _interval_ids[c], c \in handlers, c \in pending>>
            /\ \A t \in intervals' : t.id \notin Range(_interval_ids[c])
            /\ (last.op = "disconnect" /\ last.client = c) =>
                  /\ intervals' = intervals
                  /\ disconnected' = disconnected

\* C14: disconnect() never throws, whether called on a fresh, a joined or
\* an already disconnected session, and a second disconnect() leaves the
\* session as the first one left it.
C14_DisconnectNeverThrowsIdempotent == [][C14_DisconnectStep]_vars

\* disconnect() has returned on a session that had joined: its timers are
\* gone, its fields are as before.
C14_Witness ==
    /\ last.op = "disconnect"
    /\ last.client = "A"
    /\ ~last.threw
    /\ _joined_at["A"] # NullDate
    /\ Len(_interval_ids["A"]) = 2
    /\ ~Sweeping("A")

\* C15 (step): the handler on a message envelope emits exactly one event,
\* member:message with the envelope's name and payload, and does not throw.
C15_MessageStep ==
    \A c \in Observed :
        (last'.op = "handler" /\ last'.client = c /\ last'.kind = "message") =>
            \E m \in Texts :
                /\ handler(c, MessageBytes(last'.name, m))
                /\ emitted' = <<Event("member:message", last'.name, m)>>
                /\ ~last'.threw

\* C15: every message envelope handled makes the client emit exactly one
\* member:message(name, payload), whether or not name is in the table.
C15_MessageAlwaysEmitted == [][C15_MessageStep]_vars

\* A message from a name that is not in the table has been handled.
C15_Witness ==
    /\ last.op = "handler"
    /\ last.client = "A"
    /\ last.kind = "message"
    /\ last.name = "bob"
    /\ "bob" \notin DOMAIN _topic_members["A"]
    /\ emitted = <<Event("member:message", "bob", "yo")>>

\* The heartbeat timer of client c.
HeartbeatTimers(c) == {t \in intervals : t.owner = c /\ t.fn = "heartbeat"}

\* C16 (step): a heartbeat tick makes exactly one publish call, on the
\* session's topic, of an envelope that parses to a heartbeat with the
\* client's name and the session's joined_at; whether the transport accepts
\* it or not, the tick throws nothing, emits nothing, changes no field of
\* the session and leaves the timer armed one period ahead. The session's
\* joined_at, once recorded, never changes.
C16_HeartbeatStep ==
    \A c \in Observed :
        /\ (last'.op = "heartbeat_tick" /\ last'.client = c) =>
              /\ Len(published') = 1
              /\ published'[1].topic = _topic[c]
              /\ ~JSONParse(published'[1].bytes).threw
              /\ LET data == JSONParse(published'[1].bytes).data
                 IN /\ data.syntax = "object"
                    /\ data.type = "heartbeat"
                    /\ data.name = NameOf(c)
                    /\ NewDate(data.joined_at) = _joined_at[c]
              /\ ~last'.threw
              /\ emitted' = <<>>
              /\ UNCHANGED <<_topic[c], _joined_at[c], _topic_members[c],
                             _interval_ids[c]>>
              /\ \E t \in HeartbeatTimers(c)' :
                     t.due = now + MEMBER_HEARTBEAT_INTERVAL
        /\ _joined_at[c] # NullDate => _joined_at'[c] = _joined_at[c]

\* C16 (schedule): from the moment the session has joined until
\* disconnect() is called, its heartbeat timer is armed for the next
\* multiple of the heartbeat period after joined_at.
C16_HeartbeatScheduled ==
    \A c \in Observed :
        (_joined_at[c] # NullDate /\ c \notin disconnected) =>
            \E t \in HeartbeatTimers(c) :
                /\ t.due >= now
                /\ t.due <= now + MEMBER_HEARTBEAT_INTERVAL
                /\ (t.due - _joined_at[c]) % MEMBER_HEARTBEAT_INTERVAL = 0

\* C16: between joining and disconnect() every heartbeat tick publishes
\* exactly one heartbeat envelope with the client's own name and the
\* session's joined_at, the same on every tick; a publish that fails changes
\* nothing and the next tick publishes again.
C16_HeartbeatEveryTick == [][C16_HeartbeatStep]_vars /\ []C16_HeartbeatScheduled

\* The second tick of a session has published, and the transport failed it.
C16_Witness ==
    /\ last.op = "heartbeat_tick"
    /\ last.client = "A"
    /\ "A" \notin disconnected
    /\ now = _joined_at["A"] + 2 * MEMBER_HEARTBEAT_INTERVAL
    /\ Len(published) = 1
    /\ ~published[1].ok
    /\ published[1].bytes = HeartbeatBytes("alice", _joined_at["A"])

\* C17 (step): member:left(name) is emitted only once the heartbeat that
\* follows two lost ones is itself overdue, that is once more than three
\* heartbeat periods have passed since name's last heartbeat: at exactly
\* three periods that heartbeat is arriving, and the sweep tick of the same
\* instant must not evict its sender, whichever of the two runs first.
C17_LeftStep ==
    \A c \in Observed : \A i \in DOMAIN emitted' :
        (last'.op = "cleanup_tick" /\ last'.client = c
            /\ emitted'[i].type = "member:left"
            /\ emitted'[i].name # NameOf(c)) =>
            now - _topic_members[c][emitted'[i].name] >
                3 * MEMBER_HEARTBEAT_INTERVAL

\* C17: a member whose heartbeats arrive every heartbeat period with at
\* most two consecutive ones lost is never evicted, under every
\* interleaving of the arrivals with the sweep ticks.
C17_TwoLostHeartbeatsTolerated == [][C17_LeftStep]_vars

\* C18 (step): a sweep tick that evicts a member, on a client whose sweeper
\* was running by the time the member's entry reached the timeout, finds
\* the entry older than the timeout and at most one sweep period older.
C18_EvictionStep ==
    \A c \in Observed : \A i \in DOMAIN emitted' :
        (last'.op = "cleanup_tick" /\ last'.client = c
            /\ emitted'[i].type = "member:left"
            /\ emitted'[i].name # NameOf(c)
            /\ SweptSinceStale(c, emitted'[i].name)) =>
            LET age == now - _topic_members[c][emitted'[i].name]
            IN /\ MEMBER_CLEANUP_INTERVAL < age
               /\ age <= MEMBER_CLEANUP_INTERVAL + MEMBER_CLEANUP_POLL_INTERVAL

\* C18: with heartbeat period 3 s, timeout 9 s and sweep period 0.2 s, a
\* member last heard at t=0 and silent afterwards is evicted at a sweep tick
\* t with 9 < t <= 9.2, for every phase of the sweep ticks relative to t=0.
C18_EvictedInHalfOpenWindow == [][C18_EvictionStep]_vars

\* C19: a peer's heartbeat handled after the handler is installed and before
\* the session has recorded its joined_at emits no member:joined, and the
\* sender is added to the table.
C19_HeartbeatBeforeJoinedAtSilent ==
    \A c \in Observed :
        (HeartbeatHandled(c) /\ _joined_at[c] = NullDate
            /\ last.name # NameOf(c)) =>
            /\ emitted = <<>>
            /\ last.name \in DOMAIN _topic_members[c]
            /\ _topic_members[c][last.name] = now

\* C20: when the listeners of member:joined(name) run, name is already in
\* the table, and when the listeners of member:left(name) run, name is no
\* longer in it.
C20_EventsAfterTableMutation ==
    \A c \in Observed :
        (last.client = c /\ _joined_at[c] # NullDate) =>
            \A i \in DOMAIN emitted :
                emitted[i].name # NameOf(c) =>
                    /\ emitted[i].type = "member:joined" =>
                          emitted[i].name \in observed[i]
                    /\ emitted[i].type = "member:left" =>
                          emitted[i].name \notin observed[i]

\* C13: two clients on one clock, A joined before B. When B handles A's
\* heartbeat, which carries A's joined_at, B emits nothing and A is in B's
\* table; when A handles B's heartbeat, which carries B's joined_at, A emits
\* member:joined for B on the first one and B is in A's table.
C13_EarlierPeerAnnouncesLater ==
    (/\ _joined_at["A"] # NullDate
     /\ _joined_at["B"] # NullDate
     /\ _joined_at["A"] < _joined_at["B"]) =>
        /\ (HeartbeatHandled("B") /\ last.name = NameOf("A")) =>
              /\ last.joined_at = _joined_at["A"]
              /\ emitted = <<>>
              /\ NameOf("A") \in DOMAIN _topic_members["B"]
        /\ (HeartbeatHandled("A") /\ last.name = NameOf("B")) =>
              /\ last.joined_at = _joined_at["B"]
              /\ emitted = IF last.fresh THEN <<Joined(NameOf("B"))>> ELSE <<>>
              /\ NameOf("B") \in DOMAIN _topic_members["A"]

\* A, joined first, has just announced B, and B already holds A in its
\* table.
C13_Witness ==
    /\ _joined_at["A"] = 1
    /\ _joined_at["B"] = 2
    /\ HeartbeatHandled("A")
    /\ last.name = "bob"
    /\ emitted = <<Joined("bob")>>
    /\ "bob" \in DOMAIN _topic_members["A"]
    /\ "alice" \in DOMAIN _topic_members["B"]

\* The transport has refused client c's subscription: the call is no longer
\* outstanding and no joined_at was recorded.
SubscribeFailed(c) ==
    /\ _topic[c] # Null
    /\ c \notin pending
    /\ _joined_at[c] = NullDate

\* C21 (step): on a session whose subscribe the transport refused, send
\* fails with the usage error and publishes nothing, and a join is accepted.
C21_IdleAfterFailedSubscribeStep ==
    \A c \in Observed :
        (SubscribeFailed(c) /\ last'.client = c) =>
            /\ last'.op = "send" => (last'.threw /\ published' = <<>>)
            /\ last'.op = "subscribe" => ~last'.threw

\* C21: a session whose transport subscribe failed is still Idle: no timer
\* of it runs, send fails and publishes nothing, a later join is accepted.
C21_IdleAfterFailedSubscribe ==
    /\ [][C21_IdleAfterFailedSubscribeStep]_vars
    /\ [](\A c \in Observed :
            SubscribeFailed(c) => \A t \in intervals : t.owner # c)

\* C22 (step): a sweep tick of client c emits one member:left for each
\* entry that is at least the timeout old at that tick and for no other
\* name, removes exactly those entries, and leaves every other entry with
\* the time it had.
C22_SweepStep ==
    \A c \in Observed :
        (last'.op = "cleanup_tick" /\ last'.client = c) =>
            LET old == _topic_members[c]
                due == {n \in DOMAIN old : now - old[n] >= MEMBER_CLEANUP_INTERVAL}
            IN /\ Len(emitted') = Cardinality(due)
               /\ \A n \in due : \E i \in DOMAIN emitted' : emitted'[i] = Left(n)
               /\ \A i \in DOMAIN emitted' :
                      emitted'[i].type = "member:left" /\ emitted'[i].name \in due
               /\ DOMAIN _topic_members'[c] = DOMAIN old \ due
               /\ \A n \in DOMAIN old \ due : _topic_members'[c][n] = old[n]

\* C22: every sweep tick evicts exactly the members whose last heartbeat is
\* at least the timeout old, all of them in that tick with one member:left
\* each, and leaves every other entry unchanged.
C22_SweepEvictsExactlyStale == [][C22_SweepStep]_vars

\* A sweep tick has evicted bob and kept alice, whose entry is younger.
C22_Witness ==
    /\ last.op = "cleanup_tick"
    /\ last.client = "A"
    /\ emitted = <<Left("bob")>>
    /\ DOMAIN _topic_members["A"] = {"alice"}
    /\ now - _topic_members["A"]["alice"] < MEMBER_CLEANUP_INTERVAL

\* C23 (step): send on a session that was disconnected, or whose join was
\* called and whose subscription is not yet established, publishes nothing;
\* send on a joined session publishes exactly one message envelope with the
\* client's name and the payload on the session's topic.
C23_SendStep ==
    \A c \in Observed :
        (last'.op = "send" /\ last'.client = c) =>
            /\ (c \in disconnected \/ c \in pending) => published' = <<>>
            /\ (_joined_at[c] # NullDate /\ c \notin disconnected) =>
                  /\ Len(published') = 1
                  /\ published'[1].topic = _topic[c]
                  /\ \E m \in Texts :
                         published'[1].bytes = MessageBytes(NameOf(c), m)

\* C23: send is accepted only while the session is joined.
C23_SendOnlyWhileJoined == [][C23_SendStep]_vars

\* The instant at which client A last handled a heartbeat of either twin.
LastHeard == IF heard["first"] >= heard["second"]
             THEN heard["first"] ELSE heard["second"]

\* C24 (state): the table holds the twins' name with the time of the last
\* heartbeat handled from either of them, and only if one was handled.
C24_OneEntryForBoth ==
    TwinName \in DOMAIN _topic_members["A"] =>
        /\ LastHeard # NullDate
        /\ _topic_members["A"][TwinName] = LastHeard

\* C24 (step): member:joined for the twins' name is emitted only while the
\* name has no entry, and member:left for it only when each twin has been
\* silent for the cleanup timeout.
C24_TwinStep ==
    \A i \in DOMAIN emitted' :
        /\ emitted'[i] = Joined(TwinName) =>
              TwinName \notin DOMAIN _topic_members["A"]
        /\ emitted'[i] = Left(TwinName) =>
              \A p \in Twins : now - heard[p] >= MEMBER_CLEANUP_INTERVAL

\* C24: two peers that use one name share one table entry: a heartbeat of
\* either refreshes it, member:joined(name) is emitted at most once while the
\* entry exists, and member:left(name) only after both have been silent for
\* the cleanup timeout.
C24_SameNameSharesEntry == []C24_OneEntryForBoth /\ [][C24_TwinStep]_vars

\* The name is evicted after both twins were heard, at different instants.
C24_Witness ==
    /\ last.op = "cleanup_tick"
    /\ emitted = <<Left(TwinName)>>
    /\ heard["first"] # NullDate
    /\ heard["second"] # NullDate
    /\ heard["first"] # heard["second"]

\* C25 (step): member:joined(name) is emitted at most once in a step, only
\* while name has no entry in the table, and leaves name in the table; a
\* name leaves the table only in a step that emits member:left(name).
C25_AnnounceStep ==
    \A c \in Observed : \A n \in Names :
        /\ (last'.client = c /\ \E i \in DOMAIN emitted' : emitted'[i] = Joined(n)) =>
              /\ n \notin DOMAIN _topic_members[c]
              /\ n \in DOMAIN _topic_members'[c]
              /\ Cardinality({i \in DOMAIN emitted' : emitted'[i] = Joined(n)}) = 1
        /\ (n \in DOMAIN _topic_members[c] /\ n \notin DOMAIN _topic_members'[c]) =>
              /\ last'.client = c
              /\ \E i \in DOMAIN emitted' : emitted'[i] = Left(n)

\* C25: between any two member:joined(name) of one session there is a
\* member:left(name) of that session: an announced name stays in the table
\* until a step that emits member:left(name), and is not announced while
\* it is there, in any interleaving of heartbeats, sweep ticks and
\* disconnect.
C25_NoSecondJoinWithoutLeft == [][C25_AnnounceStep]_vars

\* The name is announced again: the other twin was heard, and so announced
\* the name or found it announced, more than the timeout ago, and the name
\* has since left the table.
C25_Witness ==
    /\ HeartbeatHandled("A")
    /\ emitted = <<Joined(TwinName)>>
    /\ _joined_at["A"] # NullDate
    /\ _joined_at["A"] < MaxJoinedAt
    /\ heard["first"] = now
    /\ heard["second"] # NullDate
    /\ now - heard["second"] >= MEMBER_CLEANUP_INTERVAL

\* C26 (step): the handler on a message envelope leaves the table as it was.
C26_MessageStep ==
    \A c \in Observed :
        (last'.op = "handler" /\ last'.client = c /\ last'.kind = "message") =>
            _topic_members'[c] = _topic_members[c]

\* C26 (state): a sender of messages only is not in the table, and while the
\* sweeper runs no entry is older than the timeout plus one sweep period,
\* however many messages its name has sent since its last heartbeat.
C26_MessagesAreNotLiveness ==
    \A c \in Observed :
        /\ Lurker \notin DOMAIN _topic_members[c]
        /\ Sweeping(c) =>
              \A n \in DOMAIN _topic_members[c] :
                  SweptSinceStale(c, n) =>
                      now - _topic_members[c][n] <=
                          MEMBER_CLEANUP_INTERVAL + MEMBER_CLEANUP_POLL_INTERVAL

\* C26: handling a message leaves the table unchanged: a sender of messages
\* only never enters the table, and a member that sends messages and no
\* heartbeats is evicted once the timeout has passed since its last
\* heartbeat.
C26_MessagesLeaveTableAlone ==
    [][C26_MessageStep]_vars /\ []C26_MessagesAreNotLiveness

\* A message of a member whose last heartbeat is almost the timeout old has
\* been handled, and the entry still carries the heartbeat's time.
C26_Witness ==
    /\ last.op = "handler"
    /\ last.client = "A"
    /\ last.kind = "message"
    /\ last.name = Chatter
    /\ Sweeping("A")
    /\ Chatter \in DOMAIN _topic_members["A"]
    /\ now - _topic_members["A"][Chatter] = MEMBER_CLEANUP_INTERVAL - 1

\* The last step was receiver's handler on a heartbeat of sender, with both
\* sessions' joined_at recorded.
PeerHeartbeatHandled(receiver, sender) ==
    /\ HeartbeatHandled(receiver)
    /\ last.name = NameOf(sender)
    /\ _joined_at[receiver] # NullDate
    /\ _joined_at[sender] # NullDate

\* C27: of two sessions on one clock that handle each other's heartbeats
\* once their own joined_at is recorded, P announces Q exactly when P joined
\* strictly before Q, so at most one of them announces the other and with
\* equal joined_at neither does; either way each holds the other in its
\* table.
C27_OnlyTheEarlierAnnounces ==
    \A P \in Pair : \A Q \in Pair \ {P} :
        PeerHeartbeatHandled(P, Q) =>
            /\ last.joined_at = _joined_at[Q]
            /\ emitted = IF last.fresh /\ _joined_at[P] < _joined_at[Q]
                         THEN <<Joined(NameOf(Q))>>
                         ELSE <<>>
            /\ NameOf(Q) \in DOMAIN _topic_members[P]

\* Two sessions with equal joined_at: A has handled B's heartbeat in
\* silence, and each holds the other in its table.
C27_Witness ==
    /\ PeerHeartbeatHandled("A", "B")
    /\ _joined_at["A"] = _joined_at["B"]
    /\ last.fresh
    /\ emitted = <<>>
    /\ "bob" \in DOMAIN _topic_members["A"]
    /\ "alice" \in DOMAIN _topic_members["B"]

====
